---- MODULE Spec2Model ----
(***************************************************************************)
(* Model of dev/prep_restore.py: a single pass over the lines of a         *)
(* pg_dump --data-only file that rewrites COPY headers to the target       *)
(* table's columns and trims surplus fields from the data rows.            *)
(*                                                                         *)
(* Text is modelled as sequences of one-character strings, so that the     *)
(* header pattern, strip, split and join are computed character by         *)
(* character as the Python code computes them.                             *)
(***************************************************************************)
EXTENDS Integers, Sequences, FiniteSets, TLC

VARIABLES pc, argc, fin, fout, probeIdx, probes, container, db_name, exit_code,
          inp, out, pre, calls,
          in_copy_block, expected_col_count, current_table

vars == <<pc, argc, fin, fout, probeIdx, probes, container, db_name, exit_code,
          inp, out, pre, calls,
          in_copy_block, expected_col_count, current_table>>

(***************************** bounds **************************************)
\* longest input file (in lines) that is explored
MaxLines == 3
\* largest len(sys.argv) that is explored
MaxArgc == 4

(***************************** Python values *******************************)
\* expected_col_count = None ("unknown")
Unknown == -1
\* current_table = None / container = None
NoTable == <<>>
NoContainer == "None"

(***************************** text helpers ********************************)
NL == "\n"
TAB == "\t"

\* str.isspace / regex \s, restricted to the whitespace of the alphabet
IsSpace(c) == c \in {" ", "\t", "\n"}

\* re.IGNORECASE folding for the letters of the pattern's literals
Lower(c) ==
    CASE c = "C" -> "c" [] c = "O" -> "o" [] c = "P" -> "p" [] c = "Y" -> "y"
      [] c = "F" -> "f" [] c = "R" -> "r" [] c = "M" -> "m" [] c = "S" -> "s"
      [] c = "T" -> "t" [] c = "D" -> "d" [] c = "I" -> "i" [] c = "N" -> "n"
      [] OTHER -> c

\* s.rstrip("\n")
RECURSIVE rstrip_nl(_)
rstrip_nl(s) ==
    IF s # <<>> /\ s[Len(s)] = NL THEN rstrip_nl(SubSeq(s, 1, Len(s) - 1)) ELSE s

RECURSIVE lstrip(_)
lstrip(s) == IF s # <<>> /\ IsSpace(s[1]) THEN lstrip(Tail(s)) ELSE s

RECURSIVE rstrip(_)
rstrip(s) ==
    IF s # <<>> /\ IsSpace(s[Len(s)]) THEN rstrip(SubSeq(s, 1, Len(s) - 1)) ELSE s

\* s.strip()
strip(s) == rstrip(lstrip(s))

RECURSIVE SplitAcc(_, _, _, _)
SplitAcc(s, sep, i, cur) ==
    IF i > Len(s) THEN <<cur>>
    ELSE IF s[i] = sep THEN <<cur>> \o SplitAcc(s, sep, i + 1, <<>>)
    ELSE SplitAcc(s, sep, i + 1, Append(cur, s[i]))

\* s.split(sep) for a one-character separator
split(s, sep) == SplitAcc(s, sep, 1, <<>>)

\* sep.join(parts)
RECURSIVE join(_, _)
join(sep, parts) ==
    IF parts = <<>> THEN <<>>
    ELSE IF Len(parts) = 1 THEN parts[1]
    ELSE parts[1] \o sep \o join(sep, Tail(parts))

\* s.split(".", 1)
split_first_dot(s) ==
    LET dots == {i \in 1..Len(s) : s[i] = "."}
        d == CHOOSE i \in dots : \A j \in dots : i <= j
    IN  IF dots = {} THEN <<s>>
        ELSE <<SubSeq(s, 1, d - 1), SubSeq(s, d + 1, Len(s))>>

(***************************** the header pattern **************************)
\* index just after the literal lit matched (ignoring case) at position i, or 0
MatchLit(s, i, lit) ==
    IF /\ i + Len(lit) - 1 <= Len(s)
       /\ \A k \in 1..Len(lit) : Lower(s[i + k - 1]) = lit[k]
    THEN i + Len(lit) ELSE 0

\* index just after the longest run of whitespace starting at i  (\s*)
RECURSIVE SpanSpace(_, _)
SpanSpace(s, i) == IF i <= Len(s) /\ IsSpace(s[i]) THEN SpanSpace(s, i + 1) ELSE i

\* index just after the longest run of non-whitespace starting at i  (\S*)
RECURSIVE SpanNonSpace(_, _)
SpanNonSpace(s, i) ==
    IF i <= Len(s) /\ ~IsSpace(s[i]) THEN SpanNonSpace(s, i + 1) ELSE i

\* index just after the longest run of characters other than ")"  ([^)]*)
RECURSIVE SpanNotRParen(_, _)
SpanNotRParen(s, i) ==
    IF i <= Len(s) /\ s[i] # ")" THEN SpanNotRParen(s, i + 1) ELSE i

NoMatch == [ok |-> FALSE]

\* copy_header_pattern.match(line):
\*   ^(COPY\s+)(\S+)(\s+)\(([^)]*)\)(\s+FROM\s+stdin;)   re.IGNORECASE
\* The match is anchored at the start only; every quantified class is
\* followed by a character outside the class, so the greedy spans below are
\* the only way the pattern can match.
copy_header_pattern(line) ==
    LET p1 == MatchLit(line, 1, <<"c", "o", "p", "y">>)
        p2 == SpanSpace(line, p1)
        p3 == SpanNonSpace(line, p2)
        p4 == SpanSpace(line, p3)
        p5 == SpanNotRParen(line, p4 + 1)
        p6 == SpanSpace(line, p5 + 1)
        p7 == MatchLit(line, p6, <<"f", "r", "o", "m">>)
        p8 == SpanSpace(line, p7)
        p9 == MatchLit(line, p8, <<"s", "t", "d", "i", "n", ";">>)
    IN  IF p1 = 0 \/ p2 = p1 \/ p3 = p2 \/ p4 = p3 THEN NoMatch
        ELSE IF p4 > Len(line) \/ line[p4] # "(" THEN NoMatch
        ELSE IF p5 > Len(line) THEN NoMatch
        ELSE IF p6 = p5 + 1 THEN NoMatch
        ELSE IF p7 = 0 \/ p8 = p7 THEN NoMatch
        ELSE IF p9 = 0 THEN NoMatch
        ELSE [ok |-> TRUE,
              prefix     |-> SubSeq(line, 1, p2 - 1),
              full_table |-> SubSeq(line, p2, p3 - 1),
              spacer     |-> SubSeq(line, p3, p4 - 1),
              orig_cols  |-> SubSeq(line, p4 + 1, p5 - 1),
              suffix     |-> SubSeq(line, p5 + 1, p9 - 1),
              rest       |-> SubSeq(line, p9, Len(line))]

(***************************** the schema resolver *************************)
\* what the docker/psql subprocess can do: exit status and captured stdout
Psql_a == <<" ", "a", "\n">>
Psql_ba == <<" ", "b", ",", " ", "a", "\n">>
Psql_blank == <<"\n">>
Outcomes ==
    { [rc |-> 0, stdout |-> Psql_a],
      [rc |-> 0, stdout |-> Psql_ba],
      [rc |-> 0, stdout |-> Psql_blank],     \* table not in the target
      [rc |-> 1, stdout |-> <<>>] }          \* CalledProcessError

\* schema and table the query is built from
query_target(full_table) ==
    LET parts == split_first_dot(full_table)
    IN  IF Len(parts) = 2 THEN [schema |-> parts[1], table |-> parts[2]]
        ELSE [schema |-> <<"p", "u", "b", "l", "i", "c">>, table |-> full_table]

\* get_target_columns, given what the subprocess did
get_target_columns(full_table, outcome) ==
    IF outcome.rc # 0 THEN <<>>
    ELSE LET result == strip(outcome.stdout)
             parts == split(result, ",")
         IN  IF result # <<>> THEN [i \in 1..Len(parts) |-> strip(parts[i])]
             ELSE <<>>

(***************************** the rewriter ********************************)
\* variant: the rewritten header is written without its line terminator
new_header_no_newline(m, target_cols_list) ==
    m.prefix \o m.full_table \o m.spacer \o <<"(">>
        \o join(<<",", " ">>, target_cols_list) \o <<")">> \o m.suffix

\* variant: the resolved columns are added to the original column list
new_header_appends(m, target_cols_list) ==
    m.prefix \o m.full_table \o m.spacer \o <<"(">>
        \o m.orig_cols \o <<",", " ">>
        \o join(<<",", " ">>, target_cols_list) \o <<")">> \o m.suffix \o <<NL>>

\* the header written when the lookup succeeded
new_header(m, target_cols_list) ==
    m.prefix \o m.full_table \o m.spacer \o <<"(">>
        \o join(<<",", " ">>, target_cols_list) \o <<")">> \o m.suffix \o <<NL>>

\* variant: "if len(fields) > expected_col_count" is missing
new_line_no_trim(line, expected) ==
    LET row == rstrip_nl(line)
        fields == split(row, TAB)
        f1 == IF Len(fields) = expected + 1 /\ fields[Len(fields)] = <<>>
              THEN SubSeq(fields, 1, Len(fields) - 1) ELSE fields
    IN  join(<<TAB>>, f1) \o <<NL>>

\* variant: the repair step drops the first field (fields[1:]) instead of
\* the last
new_line_drop_first(line, expected) ==
    LET row == rstrip_nl(line)
        fields == split(row, TAB)
        f1 == IF Len(fields) = expected + 1 /\ fields[Len(fields)] = <<>>
              THEN Tail(fields) ELSE fields
        f2 == IF Len(f1) > expected THEN SubSeq(f1, 1, expected) ELSE f1
    IN  join(<<TAB>>, f2) \o <<NL>>

\* variant: short rows are padded with empty fields up to the expected count
new_line_padded(line, expected) ==
    LET row == rstrip_nl(line)
        fields == split(row, TAB)
        f1 == IF Len(fields) = expected + 1 /\ fields[Len(fields)] = <<>>
              THEN SubSeq(fields, 1, Len(fields) - 1) ELSE fields
        f2 == IF Len(f1) > expected THEN SubSeq(f1, 1, expected) ELSE f1
        f3 == [i \in 1..expected |-> IF i <= Len(f2) THEN f2[i] ELSE <<>>]
    IN  join(<<TAB>>, IF Len(f2) < expected THEN f3 ELSE f2) \o <<NL>>

\* the line written for a data row when the expected count is known
new_line(line, expected) ==
    LET row == rstrip_nl(line)
        fields == split(row, TAB)
        f1 == IF Len(fields) = expected + 1 /\ fields[Len(fields)] = <<>>
              THEN SubSeq(fields, 1, Len(fields) - 1) ELSE fields
        f2 == IF Len(f1) > expected THEN SubSeq(f1, 1, expected) ELSE f1
    IN  join(<<TAB>>, f2) \o <<NL>>

\* variant: the line is compared without being stripped
is_terminator_exact(line) == rstrip_nl(line) = <<"\\", ".">>

\* line.strip() == "\\."
is_terminator(line) == strip(line) = <<"\\", ".">>

\* variant: a failed lookup leaves the count at len([]) instead of None
header_expected_len(target_cols_list) == Len(target_cols_list)

\* expected_col_count after a header, from the resolver's answer
header_expected(target_cols_list) ==
    IF target_cols_list # <<>> THEN Len(target_cols_list) ELSE Unknown

\* what is written for a header line
header_written(line, m, target_cols_list) ==
    IF target_cols_list # <<>> THEN new_header(m, target_cols_list) ELSE line

\* variant: lines outside a block get their line terminator normalised
outside_written_nl(line) == rstrip_nl(line) \o <<NL>>

\* what is written for a line outside a COPY block
outside_written(line) == line

(***************************** input lines *********************************)
Hdr_t == <<"C","O","P","Y"," ","t"," ","(","x",")"," ","F","R","O","M"," ",
           "s","t","d","i","n",";","\n">>
\* lower case, tab separators, schema-qualified, text after the suffix
Hdr_pt == <<"c","o","p","y","\t","p",".","t"," ","(","x",","," ","y",")"," ",
            "f","r","o","m"," "," ","s","t","d","i","n",";"," ","-","\n">>
\* last line of a file that does not end in a newline
Hdr_eof == <<"C","O","P","Y"," ","t"," ","(",")"," ","F","R","O","M"," ",
             "s","t","d","i","n",";">>
\* resembles a copy statement, but has no column list
NotHdr == <<"C","O","P","Y"," ","t"," ","F","R","O","M"," ",
            "s","t","d","i","n",";","\n">>
Term == <<"\\", ".", "\n">>
Term_ws == <<"\t", "\\", ".", " ">>
Row_1 == <<"1", "\n">>
Row_1e == <<"1", "\t", "\n">>
Row_12 == <<"1", "\t", "2", "\n">>
Row_123 == <<"1", "\t", "2", "\t", "3", "\n">>
Row_eof == <<"1">>
Row_12e_eof == <<"1", "\t", "2", "\t">>

Lines == {Hdr_t, Hdr_pt, Hdr_eof, NotHdr, Term, Term_ws,
          Row_1, Row_1e, Row_12, Row_123, Row_eof, Row_12e_eof}

EndsWithNL(s) == s # <<>> /\ s[Len(s)] = NL

\* "for line in fin": the file yields another line only if the previous one
\* ended in a newline
CanReadUpTo(max) ==
    /\ pc = "loop"
    /\ Len(inp) < max
    /\ IF inp = <<>> THEN TRUE ELSE EndsWithNL(inp[Len(inp)])

CanRead == CanReadUpTo(MaxLines)

(***************************** startup *************************************)
possible_containers == <<"wanderer-wanderer_db-1", "wanderer_devcontainer-db-1">>

\* "devcontainer" in container
HasDevcontainer(c) == c = "wanderer_devcontainer-db-1"

Init ==
    /\ pc = "args"
    /\ argc \in 1..MaxArgc
    /\ fin = "unopened"
    /\ fout = "unopened"
    /\ probeIdx = 1
    /\ probes = <<>>
    /\ container = NoContainer
    /\ db_name = "None"
    /\ exit_code = 0
    /\ inp = <<>>
    /\ out = <<>>
    /\ pre = <<>>
    /\ calls = <<>>
    /\ in_copy_block = FALSE
    /\ expected_col_count = 0
    /\ current_table = NoTable

BlockVars == <<in_copy_block, expected_col_count, current_table>>
IoVars == <<inp, out, pre, calls>>

\* variant: sys.exit(0)
Exit1_status0 == pc' = "exit" /\ exit_code' = 0

\* sys.exit(1)
Exit1 == pc' = "exit" /\ exit_code' = 1

CheckArgs ==
    /\ pc = "args"
    /\ IF argc # 3 THEN Exit1 ELSE pc' = "open_in" /\ UNCHANGED exit_code
    /\ UNCHANGED <<argc, fin, fout, probeIdx, probes, container, db_name, IoVars, BlockVars>>

OpenInput ==
    /\ pc = "open_in"
    /\ \E ok \in BOOLEAN :
          IF ok THEN fin' = "open" /\ pc' = "open_out" /\ UNCHANGED exit_code
          ELSE fin' = "error" /\ Exit1
    /\ UNCHANGED <<argc, fout, probeIdx, probes, container, db_name, IoVars, BlockVars>>

OpenOutput ==
    /\ pc = "open_out"
    /\ \E ok \in BOOLEAN :
          IF ok THEN fout' = "open" /\ pc' = "detect" /\ UNCHANGED exit_code
          ELSE fout' = "error" /\ Exit1
    /\ UNCHANGED <<argc, fin, probeIdx, probes, container, db_name, IoVars, BlockVars>>

\* variant: the candidates are tried from the end of the list
candidate_reversed(idx) ==
    possible_containers[Len(possible_containers) - idx + 1]

\* the idx-th container the "for c in possible_containers" loop inspects
candidate(idx) == possible_containers[idx]

\* one iteration of the loop of auto_detect_container, and what main does
\* with the function's result when the loop ends; probes records the
\* "docker inspect" calls made and whether each succeeded
auto_detect_container ==
    /\ pc = "detect"
    /\ probeIdx <= Len(possible_containers)
    /\ \E ok \in BOOLEAN :
          /\ probes' = Append(probes, [c |-> candidate(probeIdx), ok |-> ok])
          /\ IF ok
             THEN /\ container' = candidate(probeIdx)
                  /\ db_name' = IF HasDevcontainer(container') THEN "wanderer_dev"
                                ELSE "postgres"
                  /\ pc' = "loop"
                  /\ UNCHANGED <<probeIdx, exit_code>>
             ELSE /\ probeIdx' = probeIdx + 1
                  /\ UNCHANGED <<container, db_name>>
                  /\ IF probeIdx' > Len(possible_containers) THEN Exit1
                     ELSE UNCHANGED <<pc, exit_code>>
    /\ UNCHANGED <<argc, fin, fout, IoVars, BlockVars>>

(***************************** the line loop *******************************)
StartupVars == <<argc, fin, fout, probeIdx, probes, container, db_name, exit_code>>

BlockState == [in_copy_block |-> in_copy_block,
               expected_col_count |-> expected_col_count,
               current_table |-> current_table]

\* variant: the columns of a table are looked up once and then reused
HeaderLineOf_cached(pool, max) ==
    /\ CanReadUpTo(max)
    /\ \E line \in pool, outcome \in Outcomes :
        LET m == copy_header_pattern(line)
            seen == IF m.ok
                    THEN {k \in 1..Len(calls) : calls[k].full_table = m.full_table}
                    ELSE {}
            target_cols_list ==
                IF ~m.ok THEN <<>>
                ELSE IF seen # {} THEN calls[CHOOSE k \in seen : TRUE].cols
                ELSE get_target_columns(m.full_table, outcome)
        IN  /\ m.ok
            /\ inp' = Append(inp, line)
            /\ pre' = Append(pre, BlockState)
            /\ calls' = IF seen # {} THEN calls
                        ELSE Append(calls,
                   [at |-> Len(inp) + 1, full_table |-> m.full_table,
                    schema |-> query_target(m.full_table).schema,
                    table |-> query_target(m.full_table).table,
                    container |-> container, db_name |-> db_name,
                    cols |-> target_cols_list])
            /\ expected_col_count' = header_expected(target_cols_list)
            /\ out' = Append(out, header_written(line, m, target_cols_list))
            /\ in_copy_block' = TRUE
            /\ current_table' = m.full_table
    /\ UNCHANGED <<pc, StartupVars>>

\* a line matching the header pattern (tested first, whatever the state);
\* the line is one of pool, in a file of at most max lines
HeaderLineOf(pool, max) ==
    /\ CanReadUpTo(max)
    /\ \E line \in pool, outcome \in Outcomes :
        LET m == copy_header_pattern(line)
            target_cols_list ==
                IF m.ok THEN get_target_columns(m.full_table, outcome) ELSE <<>>
        IN  /\ m.ok
            /\ inp' = Append(inp, line)
            /\ pre' = Append(pre, BlockState)
            /\ calls' = Append(calls,
                   [at |-> Len(inp) + 1, full_table |-> m.full_table,
                    schema |-> query_target(m.full_table).schema,
                    table |-> query_target(m.full_table).table,
                    container |-> container, db_name |-> db_name,
                    cols |-> target_cols_list])
            /\ expected_col_count' = header_expected(target_cols_list)
            /\ out' = Append(out, header_written(line, m, target_cols_list))
            /\ in_copy_block' = TRUE
            /\ current_table' = m.full_table
    /\ UNCHANGED <<pc, StartupVars>>

HeaderLine == HeaderLineOf(Lines, MaxLines)

\* variant: the terminator forgets "in_copy_block = False"
closed_block_still_open ==
    [in_copy_block |-> TRUE, current_table |-> NoTable, expected_col_count |-> 0]

\* the block state a terminator leaves
closed_block ==
    [in_copy_block |-> FALSE, current_table |-> NoTable, expected_col_count |-> 0]

\* a line read while a COPY block is open
BlockLineOf(pool, max) ==
    /\ CanReadUpTo(max)
    /\ in_copy_block
    /\ \E line \in pool :
        /\ ~copy_header_pattern(line).ok
        /\ inp' = Append(inp, line)
        /\ pre' = Append(pre, BlockState)
        /\ IF is_terminator(line)
           THEN /\ out' = Append(out, line)
                /\ in_copy_block' = closed_block.in_copy_block
                /\ current_table' = closed_block.current_table
                /\ expected_col_count' = closed_block.expected_col_count
           ELSE /\ IF expected_col_count # Unknown
                   THEN out' = Append(out, new_line(line, expected_col_count))
                   ELSE out' = Append(out, line)
                /\ UNCHANGED BlockVars
    /\ UNCHANGED <<pc, StartupVars, calls>>

BlockLine == BlockLineOf(Lines, MaxLines)

\* a line read outside a COPY block
OutsideLineOf(pool, max) ==
    /\ CanReadUpTo(max)
    /\ ~in_copy_block
    /\ \E line \in pool :
        /\ ~copy_header_pattern(line).ok
        /\ inp' = Append(inp, line)
        /\ pre' = Append(pre, BlockState)
        /\ out' = Append(out, outside_written(line))
    /\ UNCHANGED <<pc, StartupVars, calls, BlockVars>>

OutsideLine == OutsideLineOf(Lines, MaxLines)

\* variant: an input that ends inside a COPY block is reported as an error
Finish_unterminated_error ==
    /\ pc = "loop"
    /\ IF in_copy_block THEN Exit1 /\ UNCHANGED <<fin, fout>>
       ELSE pc' = "done" /\ fin' = "closed" /\ fout' = "closed"
                         /\ UNCHANGED exit_code
    /\ UNCHANGED <<argc, probeIdx, probes, container, db_name, IoVars, BlockVars>>

\* end of the input: close both files and return
Finish ==
    /\ pc = "loop"
    /\ pc' = "done"
    /\ fin' = "closed"
    /\ fout' = "closed"
    /\ UNCHANGED <<argc, probeIdx, probes, container, db_name, exit_code, IoVars, BlockVars>>

Next == \/ CheckArgs \/ OpenInput \/ OpenOutput \/ auto_detect_container
        \/ HeaderLine \/ BlockLine \/ OutsideLine \/ Finish

Spec == Init /\ [][Next]_vars

\* The input file is finite: "for line in fin" reaches the end of the input,
\* and the statements after the loop are then executed.
SpecLive == Init /\ [][Next]_vars /\ WF_vars(Finish)

(***************************** the loop as a function **********************)
\* the block state before the first line (lines 117-119)
InitialBlock ==
    [in_copy_block |-> FALSE, current_table |-> NoTable, expected_col_count |-> 0]

\* one iteration of "for line in fin": what is written for line and the block
\* state afterwards, given the block state st before it and the columns
\* target_cols_list the resolver returns if the line is a header
process_line(line, target_cols_list, st) ==
    LET m == copy_header_pattern(line)
    IN  IF m.ok
        THEN [written |-> header_written(line, m, target_cols_list),
              st |-> [in_copy_block |-> TRUE,
                      current_table |-> m.full_table,
                      expected_col_count |-> header_expected(target_cols_list)]]
        ELSE IF st.in_copy_block
        THEN IF is_terminator(line)
             THEN [written |-> line, st |-> closed_block]
             ELSE [written |-> IF st.expected_col_count # Unknown
                               THEN new_line(line, st.expected_col_count)
                               ELSE line,
                   st |-> st]
        ELSE [written |-> outside_written(line), st |-> st]

\* the lines written for the lines read, answers[i] being the resolver's
\* answer for line i
RECURSIVE rewrite_lines(_, _, _)
rewrite_lines(lines, answers, st) ==
    IF lines = <<>> THEN <<>>
    ELSE LET r == process_line(lines[1], answers[1], st)
         IN  <<r.written>> \o rewrite_lines(Tail(lines), Tail(answers), r.st)

(***************************** longer files ********************************)
\* The same program on files of up to MaxBlockLines lines over fewer
\* different lines: long enough for two complete blocks.
MaxBlockLines == 4

\* a row that becomes the end-of-data marker when cut to one field
Row_dot1 == <<"\\", ".", "\t", "1", "\n">>

BlockFileLines == {Hdr_t, Hdr_pt, Term, Row_123, Row_dot1}

HeaderLineB == HeaderLineOf(BlockFileLines, MaxBlockLines)
BlockLineB == BlockLineOf(BlockFileLines, MaxBlockLines)
OutsideLineB == OutsideLineOf(BlockFileLines, MaxBlockLines)

NextB == \/ CheckArgs \/ OpenInput \/ OpenOutput \/ auto_detect_container
         \/ HeaderLineB \/ BlockLineB \/ OutsideLineB \/ Finish

SpecB == Init /\ [][NextB]_vars

TypeOK ==
    /\ pc \in {"args", "open_in", "open_out", "detect", "loop", "done", "exit"}
    /\ exit_code \in {0, 1}
    /\ Len(out) = Len(inp) /\ Len(pre) = Len(inp)
    /\ in_copy_block \in BOOLEAN
    /\ expected_col_count \in Int

(***************************** history helpers *****************************)
\* inp[i] is the i-th line read, out[i] what was written for it, pre[i] the
\* block state when it was read, calls the resolver calls made so far.
Idx == 1..Len(inp)

\* the block state after line i was processed
Post(i) == IF i < Len(inp) THEN pre[i + 1] ELSE BlockState

\* split(rstrip_nl(.)): the tab-separated fields of a line
Fields(s) == split(rstrip_nl(s), TAB)

IsPrefix(a, b) == Len(a) <= Len(b) /\ a = SubSeq(b, 1, Len(a))

IsHeader(i) == copy_header_pattern(inp[i]).ok

\* a line whose trimmed content is exactly the end-of-data marker
EndOfData(s) == strip(s) = <<"\\", ".">>

CallsAt(i) == {k \in 1..Len(calls) : calls[k].at = i}

\* the columns the resolver returned for header line i
ColsAt(i) == calls[CHOOSE k \in CallsAt(i) : TRUE].cols

\* the columns returned by the lookup of the block that is open when line i
\* is read: the latest lookup before line i
BlockCols(i) ==
    LET before == {k \in 1..Len(calls) : calls[k].at < i}
        last == CHOOSE k \in before : \A j \in before : j <= k
    IN  IF before = {} THEN <<>> ELSE calls[last].cols

\* line i is a data row of an open block
DataRow(i) == pre[i].in_copy_block /\ ~IsHeader(i) /\ ~EndOfData(inp[i])

\* line i is a data row of an open block whose lookup returned N >= 1 columns
KnownRow(i) == DataRow(i) /\ BlockCols(i) # <<>>
N(i) == Len(BlockCols(i))

(***************************** C1 ******************************************)
\* C1 (as stated): in a block whose header lookup succeeded with N columns,
\* every data row written has exactly N tab-separated fields.
C1_ExactlyN ==
    \A i \in Idx : KnownRow(i) => Len(Fields(out[i])) = N(i)

\* C1 (amended): in a block whose header lookup succeeded with N columns,
\* every data row written has at most N tab-separated fields, and exactly N
\* whenever the input row has at least N fields.
C1_AtMostN ==
    \A i \in Idx : KnownRow(i) =>
        /\ Len(Fields(out[i])) <= N(i)
        /\ Len(Fields(inp[i])) >= N(i) => Len(Fields(out[i])) = N(i)

\* a row with more fields than its block expects has been written, and a row
\* with fewer
C1_Witness ==
    /\ \E i \in Idx : KnownRow(i) /\ Len(Fields(inp[i])) > N(i)
    /\ \E i \in Idx : KnownRow(i) /\ Len(Fields(inp[i])) < N(i)

(***************************** C2 ******************************************)
\* C2: in a block with known count N, a data row with exactly N+1 fields
\* whose last field is empty is written with exactly N fields, the row's
\* first N fields in order.
C2_TrailingEmptyDropped ==
    \A i \in Idx :
        LET f == Fields(inp[i])
        IN  (KnownRow(i) /\ Len(f) = N(i) + 1 /\ f[Len(f)] = <<>>) =>
                /\ Len(Fields(out[i])) = N(i)
                /\ Fields(out[i]) = SubSeq(f, 1, N(i))

C2_Witness ==
    \E i \in Idx :
        LET f == Fields(inp[i])
        IN  KnownRow(i) /\ N(i) = 2 /\ Len(f) = 3 /\ f[3] = <<>>

(***************************** C3 ******************************************)
\* C3: in a block with known count N, a data row with more than N+1 fields,
\* or with N+1 fields whose last field is not empty, is written as exactly
\* its first N fields in order.
C3_Truncated ==
    \A i \in Idx :
        LET f == Fields(inp[i])
        IN  (KnownRow(i) /\ (Len(f) > N(i) + 1
                              \/ (Len(f) = N(i) + 1 /\ f[Len(f)] # <<>>))) =>
                Fields(out[i]) = SubSeq(f, 1, N(i))

\* both cases have been written: N+1 fields with a non-empty last field, and
\* more than N+1 fields
C3_Witness ==
    /\ \E i \in Idx : KnownRow(i) /\ Len(Fields(inp[i])) = N(i) + 1
                        /\ Fields(inp[i])[N(i) + 1] # <<>>
    /\ \E i \in Idx : KnownRow(i) /\ Len(Fields(inp[i])) > N(i) + 1

(***************************** C4 ******************************************)
\* C4 (as stated): in a block with known count N, a data row with fewer than
\* N fields is written identical to the input line.
C4_ShortRowIdentical ==
    \A i \in Idx :
        (KnownRow(i) /\ Len(Fields(inp[i])) < N(i)) => out[i] = inp[i]

\* C4 (amended): in a block with known count N, a data row with fewer than N
\* fields is written with its fields unchanged (none added, removed or
\* altered) and terminated by a newline: the output line is identical to the
\* input line when that line ends in a newline, and is the input line plus a
\* newline when it is the file's last line and lacks one.
C4_ShortRowFieldsKept ==
    \A i \in Idx :
        (KnownRow(i) /\ Len(Fields(inp[i])) < N(i)) =>
            /\ Fields(out[i]) = Fields(inp[i])
            /\ out[i] = (IF EndsWithNL(inp[i]) THEN inp[i] ELSE inp[i] \o <<NL>>)

C4_Witness ==
    \E i \in Idx : KnownRow(i) /\ Len(Fields(inp[i])) < N(i) /\ EndsWithNL(inp[i])

(***************************** C5 ******************************************)
\* C5: when the resolver returns no columns for a header, that header line
\* and every line of the block it opens, up to and including the block's
\* terminator, are written identical to the input.
C5_UnknownBlockUnchanged ==
    \A i \in Idx :
        /\ (IsHeader(i) /\ ColsAt(i) = <<>>) => out[i] = inp[i]
        /\ (pre[i].in_copy_block /\ ~IsHeader(i) /\ BlockCols(i) = <<>>) =>
               out[i] = inp[i]

\* a header whose lookup failed, a row that reconciliation would have changed
\* and the terminator have been written
C5_Witness ==
    /\ Len(inp) = 3
    /\ IsHeader(1) /\ ColsAt(1) = <<>>
    /\ DataRow(2) /\ Len(Fields(inp[2])) = 3
    /\ EndOfData(inp[3])

(***************************** C6 ******************************************)
\* C6: a line read while no block is open that does not match the header
\* pattern is written identical to the input, causes no resolver call and
\* leaves the rewriter outside a block with the block state unchanged.
C6_OutsidePassThrough ==
    \A i \in Idx :
        (~pre[i].in_copy_block /\ ~IsHeader(i)) =>
            /\ out[i] = inp[i]
            /\ CallsAt(i) = {}
            /\ Post(i) = pre[i]
            /\ ~Post(i).in_copy_block

\* a terminator-looking line, a line resembling a copy statement and a line
\* without a newline have been read outside a block
C6_Witness ==
    /\ Len(inp) = 3
    /\ \A i \in Idx : ~pre[i].in_copy_block
    /\ EndOfData(inp[1])
    /\ inp[2] = NotHdr
    /\ ~EndsWithNL(inp[3])

(***************************** C7 ******************************************)
\* C7: whenever a block is open, with the count known or unknown, a line
\* whose trimmed content is the end-of-data marker is written unchanged,
\* closes the block and clears the block state (no table, count 0).
C7_TerminatorCloses ==
    \A i \in Idx :
        (pre[i].in_copy_block /\ EndOfData(inp[i])) =>
            /\ out[i] = inp[i]
            /\ Post(i) = [in_copy_block |-> FALSE, expected_col_count |-> 0,
                          current_table |-> NoTable]

\* a terminator that needs trimming has closed a block whose count was known
C7_Witness ==
    \E i \in Idx :
        /\ pre[i].in_copy_block /\ pre[i].expected_col_count >= 1
        /\ EndOfData(inp[i]) /\ inp[i] # <<"\\", ".", "\n">>
        /\ ~in_copy_block

(***************************** C8 ******************************************)
\* C8: when a header is matched and the resolver returns a non-empty list L,
\* the line written is the original header with only its parenthesized column
\* list replaced by the names of L in resolver order, and the expected column
\* count of the opened block is the length of L.
C8_OnlyColumnListReplaced ==
    \A i \in Idx :
        LET m == copy_header_pattern(inp[i])
        IN  (m.ok /\ ColsAt(i) # <<>>) =>
                /\ out[i] = m.prefix \o m.full_table \o m.spacer \o <<"(">>
                              \o join(<<",", " ">>, ColsAt(i)) \o <<")">>
                              \o m.suffix \o m.rest
                /\ Post(i).in_copy_block
                /\ Post(i).expected_col_count = Len(ColsAt(i))

(***************************** C9 ******************************************)
\* the i-th line written is the i-th line read, that line's header with
\* another column list, or that line's row cut to a prefix of its fields
Image(i) ==
    LET m == copy_header_pattern(inp[i])
        head == m.prefix \o m.full_table \o m.spacer \o <<"(">>
        tail == <<")">> \o m.suffix \o <<NL>>
        o == out[i]
    IN  \/ o = inp[i]
        \/ /\ m.ok
           /\ Len(o) >= Len(head) + Len(tail)
           /\ SubSeq(o, 1, Len(head)) = head
           /\ SubSeq(o, Len(o) - Len(tail) + 1, Len(o)) = tail
        \/ /\ DataRow(i)
           /\ IsPrefix(Fields(o), Fields(inp[i]))

\* what is written for one line is one line: no newline inside it, and a
\* newline at its end unless it is the last line of the file
OneLine(i) ==
    /\ \A k \in 1..(Len(out[i]) - 1) : out[i][k] # NL
    /\ i < Len(out) => EndsWithNL(out[i])
    /\ out[i] # <<>>

\* C9: after k lines have been read exactly k lines have been written, and the
\* i-th line written is the (possibly rewritten) image of the i-th line read:
\* none is dropped, duplicated, split, merged or reordered.
C9_LineForLine ==
    /\ Len(out) = Len(inp)
    /\ \A i \in Idx : OneLine(i) /\ Image(i)

\* a rewritten header, a trimmed row and an unchanged line, in this order
C9_Witness ==
    /\ Len(inp) = 3
    /\ IsHeader(1) /\ out[1] # inp[1]
    /\ DataRow(2) /\ out[2] # inp[2]
    /\ out[3] = inp[3]

(***************************** C10 *****************************************)
\* one of the four startup conditions has occurred
StartupFailure ==
    \/ argc # 3
    \/ fin = "error"
    \/ fout = "error"
    \/ (probeIdx > Len(possible_containers) /\ container = NoContainer)

\* C10: the run ends with a non-zero exit exactly when one of the four
\* startup conditions occurs (wrong argument count, input cannot be opened,
\* output cannot be opened, no candidate container found); it then exits with
\* status 1 before any line is read or written; nothing that happens while
\* lines are processed ends the run with an error.
C10_FatalOnlyAtStartup ==
    /\ pc = "exit" => (exit_code = 1 /\ StartupFailure
                        /\ inp = <<>> /\ out = <<>> /\ calls = <<>>)
    /\ pc = "done" => (exit_code = 0 /\ ~StartupFailure)
    /\ pc = "loop" => (exit_code = 0 /\ ~StartupFailure)
    /\ (StartupFailure /\ pc # "args") => pc = "exit"
    /\ exit_code # 0 => pc = "exit"

\* the run has failed because no candidate container was found
C10_Witness ==
    /\ pc = "exit" /\ exit_code = 1
    /\ argc = 3 /\ fin = "open" /\ fout = "open" /\ container = NoContainer

(***************************** C11 *****************************************)
\* C11: discovery probes the fixed candidate list in order and selects the
\* first candidate that responds; a later candidate is selected only if every
\* earlier one failed to respond; when none responds the run fails fatally
\* without any schema lookup.
C11_FirstResponding ==
    /\ Len(probes) <= Len(possible_containers)
    /\ \A k \in 1..Len(probes) :
          /\ probes[k].c = possible_containers[k]
          /\ k < Len(probes) => ~probes[k].ok
    /\ container # NoContainer =>
          /\ probes # <<>>
          /\ probes[Len(probes)].ok
          /\ container = possible_containers[Len(probes)]
    /\ (probes # <<>> /\ probes[Len(probes)].ok) =>
          container = probes[Len(probes)].c
    /\ (Len(probes) = Len(possible_containers) /\ \A k \in 1..Len(probes) : ~probes[k].ok) =>
          /\ pc = "exit" /\ exit_code = 1
          /\ container = NoContainer
          /\ calls = <<>> /\ inp = <<>>
    /\ pc \in {"loop", "done"} => container # NoContainer

\* the second candidate has been selected after the first failed to respond
C11_Witness ==
    /\ Len(probes) = 2 /\ ~probes[1].ok /\ probes[2].ok
    /\ container = possible_containers[2]
    /\ pc = "loop"

(***************************** C12 *****************************************)
\* C12: while a block is open every line other than the terminator is handled
\* as a data row of that block; the resolver is called and a new block is
\* started only for header-matching lines read outside a block, so a line
\* matching the header pattern inside an open block neither triggers a lookup
\* nor replaces the open block's table and expected count.
C12_NoHeaderInsideBlock ==
    /\ \A k \in 1..Len(calls) : ~pre[calls[k].at].in_copy_block
    /\ \A i \in Idx :
          (pre[i].in_copy_block /\ IsHeader(i)) =>
              /\ CallsAt(i) = {}
              /\ Post(i) = pre[i]

(***************************** C13 *****************************************)
Min(a, b) == IF a <= b THEN a ELSE b

\* the resolver's answer for each line read (no columns where none was asked)
Answers == [i \in Idx |-> IF CallsAt(i) = {} THEN <<>> ELSE ColsAt(i)]

\* the loop's actions and the loop as a function agree
RewriteAgrees == out = rewrite_lines(inp, Answers, InitialBlock)

\* line t is the terminator that closes a block whose lookup returned nothing
ClosesFailedBlock(t) ==
    pre[t].in_copy_block /\ ~IsHeader(t) /\ EndOfData(inp[t]) /\ BlockCols(t) = <<>>

\* C13: a failed or empty lookup degrades only its own block: after that
\* block has been closed by its terminator, what is written for the following
\* lines is what would be written for them had the failed block not occurred;
\* a following block whose lookup succeeds with N columns has its header
\* rewritten with the resolved columns and its rows cut against its own N.
C13_FailureStaysInBlock ==
    \A t \in Idx : ClosesFailedBlock(t) =>
        /\ SubSeq(out, t + 1, Len(out))
             = rewrite_lines(SubSeq(inp, t + 1, Len(inp)),
                             SubSeq(Answers, t + 1, Len(inp)), InitialBlock)
        /\ \A j \in (t + 1)..Len(inp) :
              LET m == copy_header_pattern(inp[j])
              IN  /\ (m.ok /\ ColsAt(j) # <<>>) =>
                        /\ IsPrefix(m.prefix \o m.full_table \o m.spacer \o <<"(">>
                                      \o join(<<",", " ">>, ColsAt(j)) \o <<")">>
                                      \o m.suffix, out[j])
                        /\ Post(j).expected_col_count = Len(ColsAt(j))
                  /\ KnownRow(j) =>
                        /\ IsPrefix(Fields(out[j]), Fields(inp[j]))
                        /\ Len(Fields(out[j])) = Min(Len(Fields(inp[j])), N(j))

\* a failed block has been closed and the block after it has had its header
\* rewritten and a row trimmed to its own count
C13_Witness ==
    /\ Len(inp) = 4
    /\ IsHeader(1) /\ ColsAt(1) = <<>>
    /\ ClosesFailedBlock(2)
    /\ IsHeader(3) /\ Len(ColsAt(3)) = 2 /\ out[3] # inp[3]
    /\ KnownRow(4) /\ Len(Fields(inp[4])) = 3 /\ Len(Fields(out[4])) = 2

(***************************** C14 *****************************************)
\* C14: lookups are never cached or skipped: every header line causes exactly
\* one resolver call, for its own table identifier, whose answer the written
\* header already carries; a table named by k headers is looked up k times
\* and each block uses the answer of its own lookup.
C14_LookupPerHeader ==
    /\ \A i \in Idx :
          IF IsHeader(i)
          THEN /\ Cardinality(CallsAt(i)) = 1
               /\ \A k \in CallsAt(i) :
                     /\ calls[k].full_table = copy_header_pattern(inp[i]).full_table
                     /\ Post(i).expected_col_count
                          = (IF calls[k].cols = <<>> THEN Unknown ELSE Len(calls[k].cols))
                     /\ calls[k].cols # <<>> =>
                          LET m == copy_header_pattern(inp[i])
                          IN  IsPrefix(m.prefix \o m.full_table \o m.spacer \o <<"(">>
                                         \o join(<<",", " ">>, calls[k].cols) \o <<")">>,
                                       out[i])
          ELSE CallsAt(i) = {}
    /\ Len(calls) = Cardinality({i \in Idx : IsHeader(i)})
    /\ \A k, l \in 1..Len(calls) : k < l => calls[k].at < calls[l].at
    /\ \A T \in {calls[k].full_table : k \in 1..Len(calls)} :
          Cardinality({k \in 1..Len(calls) : calls[k].full_table = T})
            = Cardinality({i \in Idx : IsHeader(i)
                             /\ copy_header_pattern(inp[i]).full_table = T})
    /\ \A j \in Idx : pre[j].in_copy_block =>
          pre[j].expected_col_count
            = (IF BlockCols(j) = <<>> THEN Unknown ELSE Len(BlockCols(j)))

\* the same table has been looked up twice with different answers, and the
\* row of the second block has been cut to the second answer's length
C14_Witness ==
    /\ Len(inp) = 4 /\ Len(calls) = 2
    /\ IsHeader(1) /\ IsHeader(3)
    /\ calls[1].full_table = calls[2].full_table
    /\ Len(calls[1].cols) = 1 /\ Len(calls[2].cols) = 2
    /\ KnownRow(4) /\ Len(Fields(inp[4])) = 3 /\ Len(Fields(out[4])) = 2

(***************************** C15 *****************************************)
\* C15: for every data row written in a block with known count N, the fields
\* written are the first min(k, N) fields of the input row, k being its field
\* count: never more than N fields, none reordered, altered or inserted; the
\* line is what plain truncation to N fields gives, so the trailing-empty
\* repair step never changes the result.
C15_PrefixOfRow ==
    \A i \in Idx : KnownRow(i) =>
        LET f == Fields(inp[i])
            kept == SubSeq(f, 1, Min(Len(f), N(i)))
        IN  /\ Fields(out[i]) = kept
            /\ Len(Fields(out[i])) <= N(i)
            /\ out[i] = join(<<TAB>>, kept) \o <<NL>>

\* rows with fewer fields than N, and with N+1 fields the last one empty,
\* have been written
C15_Witness ==
    /\ \E i \in Idx : KnownRow(i) /\ Len(Fields(inp[i])) < N(i)
    /\ \E i \in Idx : LET f == Fields(inp[i])
                      IN  KnownRow(i) /\ Len(f) = N(i) + 1 /\ f[Len(f)] = <<>>

(***************************** C16 *****************************************)
\* the resolver has answered every lookup of the same table alike
FixedResolver ==
    \A k, l \in 1..Len(calls) :
        calls[k].full_table = calls[l].full_table => calls[k].cols = calls[l].cols

LookedUp == {calls[k].full_table : k \in 1..Len(calls)}

\* that resolver's answer for table T
Db(T) == calls[CHOOSE k \in 1..Len(calls) : calls[k].full_table = T].cols

\* the answers the same resolver gives when the written lines are read back
SecondAnswers ==
    [i \in 1..Len(out) |->
        LET m == copy_header_pattern(out[i])
        IN  IF m.ok /\ m.full_table \in LookedUp THEN Db(m.full_table) ELSE <<>>]

\* C16: the rewriting pass is idempotent under a fixed resolver: reading the
\* written lines back in, with the resolver returning the same column list
\* for each table, writes lines identical to them, line for line.
C16_Idempotent ==
    /\ out = rewrite_lines(inp, Answers, InitialBlock)
    /\ FixedResolver =>
          /\ \A i \in 1..Len(out) :
                copy_header_pattern(out[i]).ok =>
                    copy_header_pattern(out[i]).full_table \in LookedUp
          /\ rewrite_lines(out, SecondAnswers, InitialBlock) = out

\* a run that changed a header and two rows, one of them into a line that
\* reads back as the end-of-data marker
C16_Witness ==
    /\ FixedResolver
    /\ Len(inp) = 4
    /\ IsHeader(1) /\ out[1] # inp[1]
    /\ KnownRow(2) /\ out[2] # inp[2] /\ EndOfData(out[2])
    /\ KnownRow(3) /\ out[3] # inp[3]
    /\ EndOfData(inp[4])

(***************************** C17 *****************************************)
\* a block state is consistent: outside a block no table and the count 0; in
\* a block a table and a count that is unknown or at least 1
Consistent(st) ==
    IF st.in_copy_block
    THEN /\ st.current_table # NoTable
         /\ st.expected_col_count = Unknown \/ st.expected_col_count >= 1
    ELSE /\ st.current_table = NoTable
         /\ st.expected_col_count = 0

\* C17: the block state is consistent after every processed line: no block
\* open means no current table and the expected count 0; a block open means a
\* current table and an expected count that is unknown or an integer >= 1.
C17_BlockStateConsistent ==
    /\ Consistent(BlockState)
    /\ \A i \in Idx : Consistent(pre[i]) /\ Consistent(Post(i))

\* a block with unknown count has been opened and closed, and a block with a
\* known count is open
C17_Witness ==
    /\ Len(inp) = 3
    /\ Post(1).in_copy_block /\ Post(1).expected_col_count = Unknown
    /\ ~Post(2).in_copy_block
    /\ in_copy_block /\ expected_col_count = 2

(***************************** C18 *****************************************)
\* C18: once startup has succeeded the run terminates normally, whatever the
\* (finite) input and the resolver do, also when the input ends while a block
\* is open: every line read has been written, nothing is written beyond them
\* (no terminator is added), and the exit status is 0.
C18_Terminates ==
    (pc = "loop") ~> (/\ pc = "done"
                      /\ exit_code = 0
                      /\ Len(out) = Len(inp)
                      /\ fin = "closed" /\ fout = "closed")

\* the run has ended normally on an input that stops inside an open block
C18_Witness ==
    /\ pc = "done" /\ exit_code = 0
    /\ in_copy_block
    /\ Len(inp) >= 2 /\ Len(out) = Len(inp)
    /\ ~EndOfData(out[Len(out)])

====
